---- MODULE Spec2Model ----
(***************************************************************************)
(* The twilio-voice webhook (src/unnamed/part_001): one HTTP handler that  *)
(* decodes a request, resolves its action, talks to the telephony          *)
(* provider and answers with voice markup or JSON.                         *)
(*                                                                         *)
(* Strings the code only compares or copies are TLA+ strings; strings the  *)
(* code takes apart (startsWith, includes, replace) are sequences of       *)
(* one-character strings.  A field the request does not carry is Undefined *)
(* (plain strings) or the empty sequence (character strings): the code     *)
(* tests both only for truthiness.  A JSON body may carry a number where   *)
(* the code expects a string: NumberValue stands for it, and calling a     *)
(* string method on it raises a TypeError.                                 *)
(***************************************************************************)
EXTENDS Integers, Sequences, FiniteSets, TLC

VARIABLES phase, req, resp, api, client, failed, calls, env, hangup, page

vars == <<phase, req, resp, api, client, failed, calls, env, hangup, page>>

(* The provider holds at most MaxCalls calls. *)
MaxCalls == 3

(* At most MaxInstances TwilioScript components are mounted on the page. *)
MaxInstances == 3

\* src/unnamed/part_001:35
DEFAULT_TIMEOUT == 20

Undefined == "undefined"

Truthy(v) == v # Undefined

-----------------------------------------------------------------------------
(* Character strings *)

ClientPrefix == <<"c", "l", "i", "e", "n", "t", ":">>
PlusSign == <<"+">>
ConferenceWord == <<"c", "o", "n", "f", "e", "r", "e", "n", "c", "e">>

\* A number in place of a string: truthy, and without string methods.
NumberValue == <<"number">>

IsText(v) == v # NumberValue

Digits == {"0", "1", "2", "3", "4", "5", "6", "7", "8", "9"}

\* String.prototype.startsWith
StartsWith(s, prefix) ==
    /\ Len(s) >= Len(prefix)
    /\ SubSeq(s, 1, Len(prefix)) = prefix

\* String.prototype.includes
Includes(s, sub) ==
    \E i \in 1..(Len(s) - Len(sub) + 1) : SubSeq(s, i, i + Len(sub) - 1) = sub

IsDigit(c) == c \in Digits

\* phoneNumber.replace(/\D/g, '')
StripNonDigits(s) == SelectSeq(s, IsDigit)

\* let formattedPhoneNumber = phoneNumber; if (!startsWith('+') && !includes('client:')) ...
FormatPhoneNumber(phoneNumber) ==
    IF ~StartsWith(phoneNumber, PlusSign) /\ ~Includes(phoneNumber, ClientPrefix)
    THEN PlusSign \o StripNonDigits(phoneNumber)
    ELSE phoneNumber

-----------------------------------------------------------------------------
(* Requests *)

NoFields ==
    [ action |-> Undefined, phoneNumber |-> <<>>, From |-> <<>>,
      CallSid |-> Undefined, CallStatus |-> Undefined,
      CallbackSource |-> Undefined, statusCallback |-> Undefined,
      ConferenceSid |-> Undefined, StatusCallbackEvent |-> <<>>,
      callSid |-> Undefined, leadId |-> Undefined,
      DialCallStatus |-> Undefined ]

NoQuery ==
    [ action |-> Undefined, statusCallback |-> Undefined, leadId |-> Undefined,
      CallSid |-> Undefined, CallStatus |-> Undefined ]

(* contentType: the declared Content-Type header.  encoding: what the body  *)
(* text really is.  fields: the key/value pairs the body text encodes when  *)
(* its encoding is "json", "urlencoded" or "multipart".                     *)
ContentTypes == {"json", "form", "multipart", "text"}
Encodings == {"json", "jsonNull", "jsonScalar", "urlencoded", "multipart",
              "garbage", "empty"}

NoRequest ==
    [ method |-> "NONE", contentType |-> "text", encoding |-> "empty",
      query |-> NoQuery, fields |-> NoFields ]

FormPost == [NoRequest EXCEPT !.method = "POST", !.contentType = "form",
                              !.encoding = "urlencoded"]

JsonPost == [NoRequest EXCEPT !.method = "POST", !.contentType = "json",
                              !.encoding = "json"]

-----------------------------------------------------------------------------
(* Request Normalizer: lines 59-127 *)

Parsed(kind, f) == [threw |-> FALSE, kind |-> kind, f |-> f]
ParseFailed == [threw |-> TRUE, kind |-> "map", f |-> NoFields]

\* requestData as declared at line 63: {}
EmptyMap == [kind |-> "map", f |-> NoFields]

\* JSON.parse of the body text.  null and a scalar parse without error.
JsonParse(encoding, fields) ==
    CASE encoding = "json" -> Parsed("map", fields)
      [] encoding = "jsonNull" -> Parsed("null", NoFields)
      [] encoding = "jsonScalar" -> Parsed("scalar", NoFields)
      [] OTHER -> ParseFailed

\* new URLSearchParams(text): never throws; text in another encoding yields
\* keys that are none of the fields the handler looks up.
UrlSearchParams(encoding, fields) ==
    IF encoding = "urlencoded" THEN fields ELSE NoFields

\* Request.formData(): a urlencoded body always decodes, a multipart body
\* only when it is well-formed multipart.
FormData(contentType, encoding, fields) ==
    IF contentType = "form"
    THEN Parsed("map", UrlSearchParams(encoding, fields))
    ELSE IF encoding = "multipart" THEN Parsed("map", fields) ELSE ParseFailed

\* Request.text() on reqClone: it rejects when an earlier read has consumed
\* the body of the same clone.  A request without a body has nothing to consume.
ReadText(bodyUsed, encoding) ==
    [threw |-> bodyUsed /\ encoding # "empty"]

Normalize(r) ==
    IF r.contentType = "json"
    THEN LET j == JsonParse(r.encoding, r.fields)
         IN  IF j.threw THEN EmptyMap ELSE [kind |-> j.kind, f |-> j.f]
    ELSE IF r.contentType \in {"form", "multipart"}
    THEN LET fd == FormData(r.contentType, r.encoding, r.fields)
         IN  IF ~fd.threw THEN [kind |-> "map", f |-> fd.f]
             ELSE IF ReadText(TRUE, r.encoding).threw THEN EmptyMap
             ELSE [kind |-> "map", f |-> UrlSearchParams(r.encoding, r.fields)]
    ELSE IF ReadText(FALSE, r.encoding).threw \/ r.encoding = "empty"
         THEN EmptyMap
         ELSE LET j == JsonParse(r.encoding, r.fields)
              IN  IF ~j.threw THEN [kind |-> j.kind, f |-> j.f]
                  ELSE [kind |-> "map", f |-> UrlSearchParams(r.encoding, r.fields)]

\* How many times the body of reqClone, the only copy taken (line 60), is
\* asked for: json() at line 71, formData() at line 79 and, after it failed,
\* text() at line 93, or text() at line 107.
BodyReads(r) ==
    IF r.contentType \in {"form", "multipart"}
          /\ FormData(r.contentType, r.encoding, r.fields).threw
    THEN 2
    ELSE 1

-----------------------------------------------------------------------------
(* Action Classifier: lines 129-199 *)

\* Reading a property of null raises a TypeError; of a scalar it is undefined.
LooksUp(requestData) == requestData.kind # "null"

NullLookupMessage == "Cannot read properties of null (reading 'action')"

\* lines 132-141
ExplicitAction(r, f) ==
    IF ~Truthy(r.query.action) /\ Truthy(f.action) THEN f.action ELSE r.query.action

IncomingAction(r, f) ==
    IF ~Truthy(ExplicitAction(r, f)) /\ f.phoneNumber # <<>>
    THEN "incomingCall"
    ELSE ExplicitAction(r, f)

\* lines 144-149
IsStatusCallback(r, f) ==
    /\ Truthy(f.CallSid)
    /\ \/ Truthy(f.CallStatus)
       \/ f.CallbackSource = "call-progress-events"
       \/ Truthy(r.query.statusCallback)
       \/ Truthy(f.statusCallback)

StatusAction(r, f) ==
    IF IsStatusCallback(r, f) THEN "statusCallback" ELSE IncomingAction(r, f)

\* line 178: the ?.includes of a number is not a function; it is only
\* reached when the tests before it are falsy.
ConferenceTestRaises(r, f) ==
    /\ ~Truthy(f.ConferenceSid)
    /\ StatusAction(r, f) # "conferenceStatus"
    /\ ~IsText(f.StatusCallbackEvent)

\* lines 176-178
IsConferenceCallback(r, f) ==
    \/ Truthy(f.ConferenceSid)
    \/ StatusAction(r, f) = "conferenceStatus"
    \/ Includes(f.StatusCallbackEvent, ConferenceWord)

ConferenceAction(r, f) ==
    IF IsConferenceCallback(r, f) THEN "conferenceStatus" ELSE StatusAction(r, f)

\* line 193: the startsWith of a number is not a function
ClientTestRaises(f) == ~IsText(f.From)

NotAFunctionMessage == "is not a function"

\* A mutant of IsClientInitiatedCall: a call from the softphone is taken
\* for client-initiated only when it carries a lead reference.
IsClientInitiatedCallNeedsLead(f) ==
    /\ f.From # <<>>
    /\ StartsWith(f.From, ClientPrefix)
    /\ f.phoneNumber # <<>>
    /\ Truthy(f.leadId)

\* lines 191-194
IsClientInitiatedCall(f) ==
    /\ f.From # <<>>
    /\ StartsWith(f.From, ClientPrefix)
    /\ f.phoneNumber # <<>>

\* A mutant of FinalAction: the client-initiated call no longer overrides
\* the conference callback.
FinalActionConferenceLast(r, f) ==
    IF IsConferenceCallback(r, f) THEN "conferenceStatus"
    ELSE IF IsClientInitiatedCall(f) THEN "clientCall"
    ELSE StatusAction(r, f)

\* line 201: "Final action being used"
FinalAction(r, f) ==
    IF IsClientInitiatedCall(f) THEN "clientCall" ELSE ConferenceAction(r, f)

-----------------------------------------------------------------------------
(* Responses.  new Response(body, { headers }) has status 200; markup is   *)
(* the VoiceResponse document: its root element and its verbs in order.    *)

DefaultStatus == 200

Markup(verbs) ==
    [ status |-> DefaultStatus, contentType |-> "text/xml",
      body |-> [root |-> "Response", verbs |-> verbs] ]

Json(status, object) ==
    [ status |-> status, contentType |-> "application/json", body |-> object ]

\* line 48: the preflight answer
Preflight == [status |-> 204, contentType |-> "none", body |-> "null"]

NoResponse == [status |-> 0, contentType |-> "none", body |-> "none"]

Say(text) == [verb |-> "Say", text |-> text]
Pause(length) == [verb |-> "Pause", length |-> length]
Hangup == [verb |-> "Hangup"]
Dial(number, callerId, action) ==
    [ verb |-> "Dial", number |-> number, callerId |-> callerId,
      timeout |-> DEFAULT_TIMEOUT, action |-> action ]

NoUrl == [fn |-> "none"]
\* line 276
DialStatusUrl(leadId) == [fn |-> "twilio-voice", action |-> "dialStatus", leadId |-> leadId]
\* line 370
StatusCallbackUrl(leadId) == [fn |-> "dialer-webhook", callId |-> leadId]

MsgNoCallerId == "There was a configuration error. The system is missing a phone number to use as caller ID."
MsgNoCredentials == "There was a configuration error with the Twilio credentials."
MsgNoNumber == "No phone number was provided. Please try your call again."
MsgClientWait == "Connecting your call. Please wait."
MsgClientError == "Sorry, there was an error connecting your call. Please try again later."
MsgMakeCallWait == "Connecting to the phone number. Please wait."
MsgGoodbye == "Thank you for using our service. Goodbye."
MsgDialCompleted == "The call has ended. Thank you for using our service."
MsgDialBusy == "The number you called is busy. Please try again later."
MsgDialNoAnswer == "There was no answer. Please try again later."
MsgDialFailed == "The call failed to connect. Please check the number and try again."
MsgDefaultNoNumber == "No phone number was provided for this call. Please specify a phone number to call."
MsgDefaultWait == "Please wait while we connect your call."

\* value || fallback
OrElse(value, fallback) == IF Truthy(value) THEN value ELSE fallback

-----------------------------------------------------------------------------
(* The Telephony Control Client and the provider behind it.  calls maps     *)
(* every call identifier the provider can issue to the call's status,       *)
(* "none" while it is not issued.  fail is the set of provider operations   *)
(* that fail during this request: "create", "list", or the identifier of    *)
(* the call a fetch or an update is for.                                    *)

Sid(i) == "CA" \o ToString(i)
SidPool == {Sid(i) : i \in 1..MaxCalls}
ProviderErrorMessage == "provider error"

Held(cs, sid) == sid \in SidPool /\ cs[sid] # "none"

FreeIndices(cs) == {i \in 1..MaxCalls : cs[Sid(i)] = "none"}

\* client.calls.create(...)
Create(cs, fail, params) ==
    IF "create" \in fail \/ FreeIndices(cs) = {}
    THEN [ok |-> FALSE, sid |-> "none", cs |-> cs,
          log |-> [op |-> "create", ok |-> FALSE, sid |-> "none", params |-> params]]
    ELSE LET sid == Sid(CHOOSE i \in FreeIndices(cs) : \A j \in FreeIndices(cs) : i <= j)
         IN  [ok |-> TRUE, sid |-> sid, cs |-> [cs EXCEPT ![sid] = "queued"],
              log |-> [op |-> "create", ok |-> TRUE, sid |-> sid, params |-> params]]

\* client.calls(sid).fetch()
Fetch(cs, fail, sid) ==
    LET ok == Held(cs, sid) /\ sid \notin fail
    IN  [ok |-> ok, status |-> IF ok THEN cs[sid] ELSE "none",
         log |-> [op |-> "fetch", ok |-> ok, sid |-> sid]]

\* client.calls(sid).update({ status: 'completed' })
Update(cs, fail, sid) ==
    LET ok == Held(cs, sid) /\ sid \notin fail
    IN  [ok |-> ok, cs |-> IF ok THEN [cs EXCEPT ![sid] = "completed"] ELSE cs,
         log |-> [op |-> "update", ok |-> ok, sid |-> sid]]

\* client.calls.list({ status: 'in-progress' })
List(cs, fail) ==
    LET all == [i \in 1..MaxCalls |-> Sid(i)]
        InProgress(sid) == cs[sid] = "in-progress"
        ok == "list" \notin fail
    IN  [ok |-> ok, sids |-> IF ok THEN SelectSeq(all, InProgress) ELSE <<>>,
         log |-> [op |-> "list", ok |-> ok, sid |-> "none"]]

-----------------------------------------------------------------------------
(* Call Lifecycle Controller: lines 203-614.  A handler yields the         *)
(* response, the provider operations it made in order, whether the client  *)
(* was constructed, and the provider's calls afterwards.                   *)

Outcome(response, log, built, cs) ==
    [threw |-> FALSE, resp |-> response, api |-> log, client |-> built, cs |-> cs]

\* An exception that leaves the handler's body for the top-level catch.
Raise(message) ==
    [threw |-> TRUE, error |-> [message |-> message, aboutJson |-> FALSE]]

MarkupErrorMessage == "markup error"

\* lines 14-30: debugTwiML serialises the document and returns it; a document
\* without the root element is only warned about.  It raises again what the
\* serialisation raises, which is the fault "twiml" of the request.
DebugTwiML(verbs, fail) == [threw |-> "twiml" \in fail, verbs |-> verbs]

\* lines 244-297: the catch at line 288 answers a failed construction
ClientCall(f, e, cs, fail) ==
    IF f.phoneNumber = <<>>
    THEN Outcome(Markup(<<Say(MsgNoNumber)>>), <<>>, FALSE, cs)
    ELSE IF ~IsText(f.phoneNumber)
    THEN Raise(NotAFunctionMessage)
    ELSE LET twiml == DebugTwiML(
                        << Say(MsgClientWait),
                           Dial(FormatPhoneNumber(f.phoneNumber), e.TWILIO_PHONE_NUMBER,
                                DialStatusUrl(OrElse(f.leadId, "unknown"))) >>,
                        fail)
         IN  IF twiml.threw
             THEN Outcome(Markup(<<Say(MsgClientError)>>), <<>>, FALSE, cs)
             ELSE Outcome(Markup(twiml.verbs), <<>>, FALSE, cs)

\* A mutant of MakeCall: the destination is passed on as it was received.
MakeCallUnformatted(f, e, cs, fail) ==
    IF f.phoneNumber = <<>>
    THEN Outcome(Json(DefaultStatus, [success |-> FALSE, error |-> "Phone number is required"]),
                 <<>>, TRUE, cs)
    ELSE IF ~IsText(f.phoneNumber)
    THEN Outcome(Json(DefaultStatus, [success |-> FALSE, error |-> NotAFunctionMessage]),
                 <<>>, TRUE, cs)
    ELSE LET to == f.phoneNumber
             twiml == <<Say(MsgMakeCallWait), Dial(to, e.TWILIO_PHONE_NUMBER, NoUrl)>>
             c == Create(cs, fail,
                         [ twiml |-> twiml, to |-> to, from |-> e.TWILIO_PHONE_NUMBER,
                           statusCallback |-> StatusCallbackUrl(f.leadId) ])
         IN  IF DebugTwiML(twiml, fail).threw
             THEN Outcome(Json(DefaultStatus,
                               [success |-> FALSE, error |-> MarkupErrorMessage]),
                          <<>>, TRUE, cs)
             ELSE IF c.ok
             THEN Outcome(Json(DefaultStatus,
                               [ success |-> TRUE, callSid |-> c.sid,
                                 message |-> "Direct outbound call placed",
                                 leadId |-> f.leadId ]),
                          <<c.log>>, TRUE, c.cs)
             ELSE Outcome(Json(DefaultStatus,
                               [success |-> FALSE, error |-> ProviderErrorMessage]),
                          <<c.log>>, TRUE, cs)

\* lines 328-394
MakeCall(f, e, cs, fail) ==
    IF f.phoneNumber = <<>>
    THEN Outcome(Json(DefaultStatus, [success |-> FALSE, error |-> "Phone number is required"]),
                 <<>>, TRUE, cs)
    ELSE IF ~IsText(f.phoneNumber)
    THEN Outcome(Json(DefaultStatus, [success |-> FALSE, error |-> NotAFunctionMessage]),
                 <<>>, TRUE, cs)
    ELSE LET to == FormatPhoneNumber(f.phoneNumber)
             twiml == <<Say(MsgMakeCallWait), Dial(to, e.TWILIO_PHONE_NUMBER, NoUrl)>>
             c == Create(cs, fail,
                         [ twiml |-> twiml, to |-> to, from |-> e.TWILIO_PHONE_NUMBER,
                           statusCallback |-> StatusCallbackUrl(f.leadId) ])
         IN  IF DebugTwiML(twiml, fail).threw
             THEN Outcome(Json(DefaultStatus,
                               [success |-> FALSE, error |-> MarkupErrorMessage]),
                          <<>>, TRUE, cs)
             ELSE IF c.ok
             THEN Outcome(Json(DefaultStatus,
                               [ success |-> TRUE, callSid |-> c.sid,
                                 message |-> "Direct outbound call placed",
                                 leadId |-> f.leadId ]),
                          <<c.log>>, TRUE, c.cs)
             ELSE Outcome(Json(DefaultStatus,
                               [success |-> FALSE, error |-> ProviderErrorMessage]),
                          <<c.log>>, TRUE, cs)

\* A mutant of StatusCallback: the closing message is spoken for every status.
StatusCallbackAlwaysSpeaks(r, f, cs) ==
    Outcome(Markup(<<Say(MsgGoodbye)>>), <<>>, TRUE, cs)

\* lines 395-427
StatusCallback(r, f, cs) ==
    LET callStatus == OrElse(f.CallStatus, r.query.CallStatus)
    IN  Outcome(Markup(IF callStatus = "completed" THEN <<Say(MsgGoodbye)>> ELSE <<>>),
                <<>>, TRUE, cs)

\* A mutant of DialStatus: a dial result outside the four known values is
\* refused instead of being spoken in the generic message.
DialStatusRejectsOther(f, cs) ==
    IF f.DialCallStatus \in {"completed", "busy", "no-answer", "failed"}
    THEN Outcome(Markup(<<Say(CASE f.DialCallStatus = "completed" -> MsgDialCompleted
                                [] f.DialCallStatus = "busy" -> MsgDialBusy
                                [] f.DialCallStatus = "no-answer" -> MsgDialNoAnswer
                                [] OTHER -> MsgDialFailed)>>),
                 <<>>, TRUE, cs)
    ELSE Outcome(Json(DefaultStatus, [success |-> FALSE, error |-> "Unknown dial status"]),
                 <<>>, TRUE, cs)

\* lines 428-454
DialStatus(f, cs) ==
    LET text ==
          CASE f.DialCallStatus = "completed" -> MsgDialCompleted
            [] f.DialCallStatus = "busy" -> MsgDialBusy
            [] f.DialCallStatus = "no-answer" -> MsgDialNoAnswer
            [] f.DialCallStatus = "failed" -> MsgDialFailed
            [] OTHER -> "Call status is " \o OrElse(f.DialCallStatus, "unknown") \o ". Goodbye."
    IN  Outcome(Markup(<<Say(text)>>), <<>>, TRUE, cs)

\* A mutant of CheckStatus: only pending-sid is taken for a sentinel.
CheckStatusPendingOnly(f, cs, fail) ==
    IF ~Truthy(f.callSid)
    THEN Outcome(Json(DefaultStatus,
                      [success |-> FALSE, error |-> "Call SID is required to check call status"]),
                 <<>>, TRUE, cs)
    ELSE IF f.callSid = "pending-sid"
    THEN Outcome(Json(DefaultStatus, [success |-> TRUE, status |-> "pending"]), <<>>, TRUE, cs)
    ELSE LET c == Fetch(cs, fail, f.callSid)
         IN  IF c.ok
             THEN Outcome(Json(DefaultStatus, [success |-> TRUE, status |-> c.status]),
                          <<c.log>>, TRUE, cs)
             ELSE Outcome(Json(DefaultStatus,
                               [success |-> FALSE, error |-> ProviderErrorMessage]),
                          <<c.log>>, TRUE, cs)

\* A mutant of CheckStatus: the identifier is read from the provider's field
\* CallSid instead of the application's callSid.
CheckStatusReadsCallSid(f, cs, fail) ==
    IF ~Truthy(f.CallSid)
    THEN Outcome(Json(DefaultStatus,
                      [success |-> FALSE, error |-> "Call SID is required to check call status"]),
                 <<>>, TRUE, cs)
    ELSE IF f.CallSid = "pending-sid" \/ f.CallSid = "browser-call"
    THEN Outcome(Json(DefaultStatus, [success |-> TRUE, status |-> "pending"]), <<>>, TRUE, cs)
    ELSE LET c == Fetch(cs, fail, f.CallSid)
         IN  IF c.ok
             THEN Outcome(Json(DefaultStatus, [success |-> TRUE, status |-> c.status]),
                          <<c.log>>, TRUE, cs)
             ELSE Outcome(Json(DefaultStatus,
                               [success |-> FALSE, error |-> ProviderErrorMessage]),
                          <<c.log>>, TRUE, cs)

\* lines 455-494
CheckStatus(f, cs, fail) ==
    IF ~Truthy(f.callSid)
    THEN Outcome(Json(DefaultStatus,
                      [success |-> FALSE, error |-> "Call SID is required to check call status"]),
                 <<>>, TRUE, cs)
    ELSE IF f.callSid = "pending-sid" \/ f.callSid = "browser-call"
    THEN Outcome(Json(DefaultStatus, [success |-> TRUE, status |-> "pending"]), <<>>, TRUE, cs)
    ELSE LET c == Fetch(cs, fail, f.callSid)
         IN  IF c.ok
             THEN Outcome(Json(DefaultStatus, [success |-> TRUE, status |-> c.status]),
                          <<c.log>>, TRUE, cs)
             ELSE Outcome(Json(DefaultStatus,
                               [success |-> FALSE, error |-> ProviderErrorMessage]),
                          <<c.log>>, TRUE, cs)

\* A mutant of EndCall: the identifier is not validated before the provider
\* is asked to terminate the call.
EndCallUnvalidated(f, cs, fail) ==
    IF f.callSid = "browser-call"
    THEN Outcome(Json(DefaultStatus,
                      [ success |-> TRUE,
                        message |-> "Browser call handling managed client-side" ]),
                 <<>>, TRUE, cs)
    ELSE LET u == Update(cs, fail, f.callSid)
         IN  IF u.ok
             THEN Outcome(Json(DefaultStatus, [success |-> TRUE, message |-> "Call ended"]),
                          <<u.log>>, TRUE, u.cs)
             ELSE Outcome(Json(DefaultStatus,
                               [success |-> FALSE, error |-> ProviderErrorMessage]),
                          <<u.log>>, TRUE, cs)

\* A mutant of EndCall: pending-sid is taken for a sentinel, as checkStatus
\* takes it.
EndCallPendingSentinel(f, cs, fail) ==
    IF ~Truthy(f.callSid)
    THEN Outcome(Json(DefaultStatus,
                      [success |-> FALSE, error |-> "Call SID is required to end a call"]),
                 <<>>, TRUE, cs)
    ELSE IF f.callSid = "browser-call" \/ f.callSid = "pending-sid"
    THEN Outcome(Json(DefaultStatus,
                      [ success |-> TRUE,
                        message |-> "Browser call handling managed client-side" ]),
                 <<>>, TRUE, cs)
    ELSE LET u == Update(cs, fail, f.callSid)
         IN  IF u.ok
             THEN Outcome(Json(DefaultStatus, [success |-> TRUE, message |-> "Call ended"]),
                          <<u.log>>, TRUE, u.cs)
             ELSE Outcome(Json(DefaultStatus,
                               [success |-> FALSE, error |-> ProviderErrorMessage]),
                          <<u.log>>, TRUE, cs)

\* lines 495-531
EndCall(f, cs, fail) ==
    IF ~Truthy(f.callSid)
    THEN Outcome(Json(DefaultStatus,
                      [success |-> FALSE, error |-> "Call SID is required to end a call"]),
                 <<>>, TRUE, cs)
    ELSE IF f.callSid = "browser-call"
    THEN Outcome(Json(DefaultStatus,
                      [ success |-> TRUE,
                        message |-> "Browser call handling managed client-side" ]),
                 <<>>, TRUE, cs)
    ELSE LET u == Update(cs, fail, f.callSid)
         IN  IF u.ok
             THEN Outcome(Json(DefaultStatus, [success |-> TRUE, message |-> "Call ended"]),
                          <<u.log>>, TRUE, u.cs)
             ELSE Outcome(Json(DefaultStatus,
                               [success |-> FALSE, error |-> ProviderErrorMessage]),
                          <<u.log>>, TRUE, cs)

\* line 551
TerminatedMessage(n) == "Terminated " \o ToString(n) \o " active calls"

\* callsList.map(call => client.calls(call.sid).update(...)): every update is
\* issued; the provider applies those that do not fail.
RECURSIVE HangupEach(_, _, _)
HangupEach(cs, fail, sids) ==
    IF sids = <<>>
    THEN [cs |-> cs, log |-> <<>>, ok |-> TRUE]
    ELSE LET u == Update(cs, fail, Head(sids))
             rest == HangupEach(u.cs, fail, Tail(sids))
         IN  [cs |-> rest.cs, log |-> <<u.log>> \o rest.log, ok |-> u.ok /\ rest.ok]

\* lines 532-563.  await Promise.all(hangupPromises) rejects when any of the
\* updates rejects, and the catch answers with the error.
HangupAll(cs, fail) ==
    LET l == List(cs, fail)
    IN  IF ~l.ok
        THEN Outcome(Json(DefaultStatus, [success |-> FALSE, error |-> ProviderErrorMessage]),
                     <<l.log>>, TRUE, cs)
        ELSE LET h == HangupEach(cs, fail, l.sids)
             IN  IF h.ok
                 THEN Outcome(Json(DefaultStatus,
                                   [success |-> TRUE, message |-> TerminatedMessage(Len(l.sids))]),
                              <<l.log>> \o h.log, TRUE, h.cs)
                 ELSE Outcome(Json(DefaultStatus,
                                   [success |-> FALSE, error |-> ProviderErrorMessage]),
                              <<l.log>> \o h.log, TRUE, h.cs)

\* line 611; an action that was never set prints as null
UnsupportedMessage(action) ==
    "The requested action " \o (IF Truthy(action) THEN action ELSE "null")
        \o " is not supported."

\* A mutant of Default: the diagnostic does not name the action.
DefaultUnnamed(f, action, e, cs, fail) ==
    IF f.From # <<>> /\ StartsWith(f.From, ClientPrefix)
    THEN LET twiml == DebugTwiML(
                        IF f.phoneNumber = <<>>
                        THEN <<Say(MsgDefaultNoNumber), Pause(1), Hangup>>
                        ELSE << Say(MsgDefaultWait),
                                Dial(FormatPhoneNumber(f.phoneNumber),
                                     e.TWILIO_PHONE_NUMBER, NoUrl) >>,
                        fail)
         IN  IF twiml.threw
             THEN Raise(MarkupErrorMessage)
             ELSE Outcome(Markup(twiml.verbs), <<>>, TRUE, cs)
    ELSE Outcome(Json(DefaultStatus,
                      [success |-> FALSE, error |-> "The requested action is not supported."]),
                 <<>>, TRUE, cs)

\* A mutant of Default: a client call without a number is left on the line.
DefaultWithoutHangup(f, action, e, cs, fail) ==
    IF f.From # <<>> /\ StartsWith(f.From, ClientPrefix)
    THEN LET twiml == DebugTwiML(
                        IF f.phoneNumber = <<>>
                        THEN <<Say(MsgDefaultNoNumber), Pause(1)>>
                        ELSE << Say(MsgDefaultWait),
                                Dial(FormatPhoneNumber(f.phoneNumber),
                                     e.TWILIO_PHONE_NUMBER, NoUrl) >>,
                        fail)
         IN  IF twiml.threw
             THEN Raise(MarkupErrorMessage)
             ELSE Outcome(Markup(twiml.verbs), <<>>, TRUE, cs)
    ELSE Outcome(Json(DefaultStatus,
                      [success |-> FALSE, error |-> UnsupportedMessage(action)]),
                 <<>>, TRUE, cs)

\* lines 564-614: debugTwiML at line 600 is outside any try of the handler
Default(f, action, e, cs, fail) ==
    IF f.From # <<>> /\ StartsWith(f.From, ClientPrefix)
    THEN LET twiml == DebugTwiML(
                        IF f.phoneNumber = <<>>
                        THEN <<Say(MsgDefaultNoNumber), Pause(1), Hangup>>
                        ELSE << Say(MsgDefaultWait),
                                Dial(FormatPhoneNumber(f.phoneNumber),
                                     e.TWILIO_PHONE_NUMBER, NoUrl) >>,
                        fail)
         IN  IF twiml.threw
             THEN Raise(MarkupErrorMessage)
             ELSE Outcome(Markup(twiml.verbs), <<>>, TRUE, cs)
    ELSE Outcome(Json(DefaultStatus,
                      [success |-> FALSE, error |-> UnsupportedMessage(action)]),
                 <<>>, TRUE, cs)

\* A mutant of Dispatch: the client is constructed and used without the
\* credentials being checked.
DispatchWithoutCredentialCheck(r, f, action, e, cs, fail) ==
    IF ~Truthy(e.TWILIO_PHONE_NUMBER)
    THEN Outcome(Markup(<<Say(MsgNoCallerId)>>), <<>>, FALSE, cs)
    ELSE IF action = "conferenceStatus"
    THEN Outcome(Markup(<<>>), <<>>, FALSE, cs)
    ELSE IF action = "clientCall" \/ IsClientInitiatedCall(f)
    THEN ClientCall(f, e, cs, fail)
    ELSE IF action = "getConfig"
    THEN Outcome(Json(DefaultStatus,
                      [twilioPhoneNumber |-> e.TWILIO_PHONE_NUMBER, success |-> TRUE]),
                 <<>>, FALSE, cs)
    ELSE IF action = "makeCall" THEN MakeCall(f, e, cs, fail)
    ELSE IF action = "statusCallback" \/ (~Truthy(action) /\ Truthy(f.CallSid))
    THEN StatusCallback(r, f, cs)
    ELSE IF action = "dialStatus" THEN DialStatus(f, cs)
    ELSE IF action = "checkStatus" THEN CheckStatus(f, cs, fail)
    ELSE IF action = "endCall" THEN EndCall(f, cs, fail)
    ELSE IF action = "hangupAll" THEN HangupAll(cs, fail)
    ELSE Default(f, action, e, cs, fail)

\* A mutant of Dispatch: the configuration is only returned once the
\* credentials have been checked.
DispatchConfigAfterCredentials(r, f, action, e, cs, fail) ==
    IF ~Truthy(e.TWILIO_PHONE_NUMBER)
    THEN Outcome(Markup(<<Say(MsgNoCallerId)>>), <<>>, FALSE, cs)
    ELSE IF action = "conferenceStatus"
    THEN Outcome(Markup(<<>>), <<>>, FALSE, cs)
    ELSE IF action = "clientCall" \/ IsClientInitiatedCall(f)
    THEN ClientCall(f, e, cs, fail)
    ELSE IF ~Truthy(e.TWILIO_ACCOUNT_SID) \/ ~Truthy(e.TWILIO_AUTH_TOKEN)
    THEN Outcome(Markup(<<Say(MsgNoCredentials)>>), <<>>, FALSE, cs)
    ELSE IF action = "getConfig"
    THEN Outcome(Json(DefaultStatus,
                      [twilioPhoneNumber |-> e.TWILIO_PHONE_NUMBER, success |-> TRUE]),
                 <<>>, FALSE, cs)
    ELSE IF action = "makeCall" THEN MakeCall(f, e, cs, fail)
    ELSE IF action = "statusCallback" \/ (~Truthy(action) /\ Truthy(f.CallSid))
    THEN StatusCallback(r, f, cs)
    ELSE IF action = "dialStatus" THEN DialStatus(f, cs)
    ELSE IF action = "checkStatus" THEN CheckStatus(f, cs, fail)
    ELSE IF action = "endCall" THEN EndCall(f, cs, fail)
    ELSE IF action = "hangupAll" THEN HangupAll(cs, fail)
    ELSE Default(f, action, e, cs, fail)

\* lines 203-614: the checks of the configuration and the dispatch on action
Dispatch(r, f, action, e, cs, fail) ==
    IF ~Truthy(e.TWILIO_PHONE_NUMBER)
    THEN Outcome(Markup(<<Say(MsgNoCallerId)>>), <<>>, FALSE, cs)
    ELSE IF action = "conferenceStatus"
    THEN Outcome(Markup(<<>>), <<>>, FALSE, cs)
    ELSE IF action = "clientCall" \/ IsClientInitiatedCall(f)
    THEN ClientCall(f, e, cs, fail)
    ELSE IF action = "getConfig"
    THEN Outcome(Json(DefaultStatus,
                      [twilioPhoneNumber |-> e.TWILIO_PHONE_NUMBER, success |-> TRUE]),
                 <<>>, FALSE, cs)
    ELSE IF ~Truthy(e.TWILIO_ACCOUNT_SID) \/ ~Truthy(e.TWILIO_AUTH_TOKEN)
    THEN Outcome(Markup(<<Say(MsgNoCredentials)>>), <<>>, FALSE, cs)
    ELSE IF action = "makeCall" THEN MakeCall(f, e, cs, fail)
    ELSE IF action = "statusCallback" \/ (~Truthy(action) /\ Truthy(f.CallSid))
    THEN StatusCallback(r, f, cs)
    ELSE IF action = "dialStatus" THEN DialStatus(f, cs)
    ELSE IF action = "checkStatus" THEN CheckStatus(f, cs, fail)
    ELSE IF action = "endCall" THEN EndCall(f, cs, fail)
    ELSE IF action = "hangupAll" THEN HangupAll(cs, fail)
    ELSE Default(f, action, e, cs, fail)

\* A mutant of CatchAll: the status the catch had before it was changed to 200.
CatchAllStatus500(error, cs) ==
    IF error.aboutJson
    THEN Outcome(Markup(<<>>), <<>>, FALSE, cs)
    ELSE Outcome(Json(500, [success |-> FALSE, error |-> error.message]), <<>>, FALSE, cs)

\* lines 615-637: the top-level catch
CatchAll(error, cs) ==
    IF error.aboutJson
    THEN Outcome(Markup(<<>>), <<>>, FALSE, cs)
    ELSE Outcome(Json(200, [success |-> FALSE, error |-> error.message]), <<>>, FALSE, cs)

\* lines 37-638: the handler passed to serve
Handler(r, e, cs, fail) ==
    IF r.method = "OPTIONS"
    THEN Outcome(Preflight, <<>>, FALSE, cs)
    ELSE LET requestData == Normalize(r)
             f == requestData.f
             body == IF ~LooksUp(requestData) THEN Raise(NullLookupMessage)
                     ELSE IF ConferenceTestRaises(r, f) \/ ClientTestRaises(f)
                     THEN Raise(NotAFunctionMessage)
                     ELSE Dispatch(r, f, FinalAction(r, f), e, cs, fail)
         IN  IF body.threw THEN CatchAll(body.error, cs) ELSE body

-----------------------------------------------------------------------------
(* Inputs *)

CallerId == "+15550001111"

Environment(phone, sid, token) ==
    [ TWILIO_PHONE_NUMBER |-> IF phone THEN CallerId ELSE Undefined,
      TWILIO_ACCOUNT_SID |-> IF sid THEN "AC1" ELSE Undefined,
      TWILIO_AUTH_TOKEN |-> IF token THEN "secret" ELSE Undefined ]

Environments == {Environment(p, a, t) : p \in BOOLEAN, a \in BOOLEAN, t \in BOOLEAN}

Configured(e) ==
    /\ Truthy(e.TWILIO_PHONE_NUMBER)
    /\ Truthy(e.TWILIO_ACCOUNT_SID)
    /\ Truthy(e.TWILIO_AUTH_TOKEN)

TenDigits == <<"5", "5", "5", "1", "2", "3", "4", "5", "6", "7">>
E164 == <<"+", "1">> \o TenDigits
Punctuated == <<"(", "5", "5", "5", ")", " ", "1", "2", "3", "-", "4", "5", "6", "7">>
ClientAddress == ClientPrefix \o <<"b", "o", "b">>
ClientAbc == ClientPrefix \o <<"a", "b", "c">>
Pstn == <<"+", "1", "9", "9", "9">>
ConferenceEnd == ConferenceWord \o <<"-", "e", "n", "d">>
ParticipantJoin == <<"p", "a", "r", "t", "i", "c", "i", "p", "a", "n", "t">>

PlusPunctuated == <<"+", "1", " ", "(", "5", "5", "5", ")", " ", "1", "2", "3">>
PhoneNumbers == {<<>>, TenDigits, E164, Punctuated, PlusPunctuated, ClientAddress}
JsonPhoneNumbers == PhoneNumbers \cup {NumberValue}
CallStatuses == {"initiated", "ringing", "in-progress", "completed", "busy",
                 "no-answer", "failed"}
DialStatuses == {Undefined, "completed", "busy", "no-answer", "failed", "canceled"}
CallSids == {Undefined, "pending-sid", "browser-call", "CA-gone"} \cup SidPool
LeadIds == {Undefined, "42"}

\* The action arrives in the query string or in the body.
WithAction(r, inQuery, a) ==
    IF inQuery THEN [r EXCEPT !.query.action = a] ELSE [r EXCEPT !.fields.action = a]

\* A provider's CallSid and CallStatus riding along with the request.
WithCallStatus(r, carried) ==
    IF carried
    THEN [r EXCEPT !.fields.CallSid = "CA123", !.fields.CallStatus = "completed"]
    ELSE r

\* What the application sends: JSON bodies with an explicit action.
ManagementRequests ==
    {WithCallStatus(WithAction([JsonPost EXCEPT !.fields.phoneNumber = p,
                                                !.fields.leadId = l], q, "makeCall"), c) :
        p \in JsonPhoneNumbers, l \in LeadIds, q \in BOOLEAN, c \in BOOLEAN}
    \cup
    {WithCallStatus(WithAction([JsonPost EXCEPT !.fields.callSid = s], q, a), c) :
        s \in CallSids, a \in {"checkStatus", "endCall"}, q \in BOOLEAN, c \in BOOLEAN}
    \cup
    {WithCallStatus(WithAction(JsonPost, q, a), c) :
        a \in {"hangupAll", "getConfig"}, q \in BOOLEAN, c \in BOOLEAN}

\* The provider's dial-result callbacks: form posts to ?action=dialStatus&leadId=...
DialResultRequests ==
    {WithCallStatus([FormPost EXCEPT !.query.action = "dialStatus", !.query.leadId = l,
                                     !.fields.DialCallStatus = d], c) :
        l \in LeadIds, d \in DialStatuses, c \in BOOLEAN}

\* Requests that the classifier has to tell apart by the fields they carry.
ClassifierRequests ==
    {[FormPost EXCEPT !.query.action = a, !.fields.From = from,
                      !.fields.phoneNumber = p, !.fields.CallSid = sid,
                      !.fields.CallStatus = st, !.fields.ConferenceSid = conf] :
        a \in {Undefined, "conferenceStatus", "clientCall", "statusCallback", "getConfig", "bogus"},
        from \in {<<>>, ClientAbc, Pstn},
        p \in {<<>>, TenDigits, E164},
        sid \in {Undefined, "CA123"},
        st \in {Undefined, "completed", "ringing"},
        conf \in {Undefined, "CF1"}}

\* Status callbacks in every status, and the markers that make a request one.
StatusRequests ==
    {[FormPost EXCEPT !.fields.CallSid = sid, !.fields.CallStatus = st,
                      !.fields.From = from, !.fields.phoneNumber = p] :
        sid \in {Undefined, "CA123"}, st \in CallStatuses,
        from \in {<<>>, ClientAbc}, p \in {<<>>, TenDigits}}
    \cup
    {[FormPost EXCEPT !.fields.CallSid = sid, !.fields.CallStatus = st,
                      !.fields.CallbackSource = src, !.query.statusCallback = qf,
                      !.fields.statusCallback = bf, !.fields.StatusCallbackEvent = ev] :
        sid \in {Undefined, "CA123"}, st \in {Undefined, "completed"},
        src \in {Undefined, "call-progress-events", "other"},
        qf \in {Undefined, "true"}, bf \in {Undefined, "true"},
        ev \in {<<>>, ConferenceEnd, ParticipantJoin}}
    \cup
    {[FormPost EXCEPT !.encoding = "empty", !.query.CallSid = "CA123",
                      !.query.CallStatus = st] : st \in {"completed", "ringing"}}

\* Calls from the browser softphone, with and without a lead reference.
ClientRequests ==
    {WithCallStatus([FormPost EXCEPT !.query.action = a, !.fields.From = ClientAbc,
                                     !.fields.phoneNumber = p, !.fields.leadId = l], c) :
        a \in {Undefined, "checkStatus", "bogus"}, p \in PhoneNumbers,
        l \in LeadIds, c \in BOOLEAN}
    \cup
    {[FormPost EXCEPT !.fields.From = ClientAbc, !.fields.CallSid = "CA123",
                      !.fields.leadId = l] : l \in LeadIds}

\* Every declared content type against every body encoding.
EncodingRequests ==
    {[NoRequest EXCEPT !.method = "POST", !.contentType = ct, !.encoding = enc,
                       !.query.action = a,
                       !.fields = IF enc \in {"json", "urlencoded", "multipart"}
                                  THEN fs ELSE NoFields] :
        ct \in ContentTypes, enc \in Encodings, a \in {Undefined, "getConfig"},
        fs \in {NoFields,
                [NoFields EXCEPT !.CallSid = "CA123", !.CallStatus = "completed"]}}

\* JSON bodies with numbers where the handler expects strings.
NumberRequests ==
    {[JsonPost EXCEPT !.fields.action = a, !.fields.From = from,
                      !.fields.phoneNumber = p, !.fields.StatusCallbackEvent = ev,
                      !.fields.ConferenceSid = conf] :
        a \in {Undefined, "clientCall", "conferenceStatus", "checkStatus"},
        from \in {<<>>, ClientAbc, NumberValue},
        p \in {<<>>, TenDigits, NumberValue},
        ev \in {<<>>, NumberValue},
        conf \in {Undefined, "CF1"}}

Requests ==
    {[NoRequest EXCEPT !.method = "OPTIONS"]}
        \cup ManagementRequests \cup DialResultRequests \cup ClassifierRequests
        \cup StatusRequests \cup ClientRequests \cup EncodingRequests
        \cup NumberRequests

\* The provider operations the request can reach, the only ones whose
\* failure can be observed.
Reachable(r, cs) ==
    LET a == ExplicitAction(r, r.fields)
    IN  CASE a = "makeCall" -> {"create"}
          [] a \in {"checkStatus", "endCall"} -> {r.fields.callSid} \cap SidPool
          [] a = "hangupAll" -> {"list"} \cup {s \in SidPool : cs[s] = "in-progress"}
          [] OTHER -> {}

\* The requests whose handling serialises a document through debugTwiML.
MarkupFaults(r) ==
    IF \/ ExplicitAction(r, r.fields) = "makeCall"
       \/ IsText(r.fields.From) /\ StartsWith(r.fields.From, ClientPrefix)
    THEN {"twiml"}
    ELSE {}

\* The hangupAll handler before it is entered, and the page before any
\* TwilioScript component is mounted.
NoHangup ==
    [pc |-> "none", listed |-> {}, outstanding |-> {}, resp |-> NoResponse]

Instances == 1..MaxInstances

NoPage ==
    [ twilio |-> FALSE, script |-> "absent", appended |-> 0, owner |-> 0,
      inst |-> [i \in Instances |->
                  [effect |-> "unmounted", onLoad |-> FALSE, onError |-> FALSE]] ]

-----------------------------------------------------------------------------
(* The state machine *)

Init ==
    /\ phase = "idle"
    /\ req = NoRequest
    /\ resp = NoResponse
    /\ api = <<>>
    /\ client = FALSE
    /\ failed = {}
    /\ calls = [s \in SidPool |-> "none"]
    /\ env \in Environments
    /\ hangup = NoHangup
    /\ page = NoPage

\* One request handled from arrival to response.  A create is only refused
\* for lack of identifiers when the pool is exhausted, so such a request
\* waits.
Serve(r, fail) ==
    /\ phase = "idle"
    /\ LET out == Handler(r, env, calls, fail)
       IN  /\ \A i \in 1..Len(out.api) :
                 (out.api[i].op = "create" /\ ~out.api[i].ok) => "create" \in fail
           /\ resp' = out.resp
           /\ api' = out.api
           /\ client' = out.client
           /\ calls' = out.cs
    /\ req' = r
    /\ failed' = fail
    /\ phase' = "done"
    /\ UNCHANGED <<env, hangup, page>>

\* The response is sent; nothing of the request is kept (request-scoped data).
Finish ==
    /\ phase = "done"
    /\ phase' = "idle"
    /\ req' = NoRequest
    /\ resp' = NoResponse
    /\ api' = <<>>
    /\ client' = FALSE
    /\ failed' = {}
    /\ UNCHANGED <<calls, env, hangup, page>>

\* The provider moves a call on between requests.
ProviderProgress(sid) ==
    /\ phase = "idle"
    /\ calls[sid] \in {"queued", "in-progress"}
    /\ calls' = [calls EXCEPT ![sid] = IF calls[sid] = "queued" THEN "in-progress"
                                                               ELSE "completed"]
    /\ UNCHANGED <<phase, req, resp, api, client, failed, env, hangup, page>>

Next ==
    \/ \E r \in Requests : \E fail \in SUBSET Reachable(r, calls) : Serve(r, fail)
    \/ Finish
    \/ \E sid \in SidPool : ProviderProgress(sid)

\* The webhook with a markup library that builds every document.
Spec == Init /\ [][Next]_vars

\* The webhook with a markup library whose serialisation may fail.
BuilderNext ==
    \/ \E r \in Requests :
          \E fail \in SUBSET (Reachable(r, calls) \cup MarkupFaults(r)) : Serve(r, fail)
    \/ Finish
    \/ \E sid \in SidPool : ProviderProgress(sid)

BuilderSpec == Init /\ [][BuilderNext]_vars

-----------------------------------------------------------------------------
(* The hangupAll handler step by step: lines 532-563.  The handler awaits   *)
(* the list, starts one update per listed call in the same turn (the map    *)
(* at line 542), and awaits Promise.all of them.  Promise.all resolves when *)
(* every update has succeeded and rejects as soon as one update fails; the  *)
(* updates that are still outstanding then settle after the response.       *)

\* The provider issues identifiers in order: the calls it holds are a prefix.
ProviderStates ==
    {cs \in [SidPool -> {"none", "queued", "in-progress", "completed"}] :
        \A i \in 1..MaxCalls : \A j \in 1..MaxCalls :
            (i < j /\ cs[Sid(j)] # "none") => cs[Sid(i)] # "none"}

HangupInit ==
    /\ phase = "idle"
    /\ req = NoRequest
    /\ resp = NoResponse
    /\ api = <<>>
    /\ client = FALSE
    /\ failed = {}
    /\ calls \in ProviderStates
    /\ env = Environment(TRUE, TRUE, TRUE)
    /\ hangup = [NoHangup EXCEPT !.pc = "start"]
    /\ page = NoPage

HangupError ==
    Json(DefaultStatus, [success |-> FALSE, error |-> ProviderErrorMessage])

\* lines 538-544: the list is awaited and every update is started
HangupList(ok) ==
    /\ hangup.pc = "start"
    /\ hangup' =
          IF ok
          THEN LET listed == {sid \in SidPool : calls[sid] = "in-progress"}
               IN  [hangup EXCEPT !.pc = "awaiting", !.listed = listed,
                                  !.outstanding = listed]
          ELSE [hangup EXCEPT !.pc = "responded", !.resp = HangupError]
    /\ UNCHANGED <<phase, req, resp, api, client, failed, calls, env, page>>

\* line 543: one update succeeds at the provider
UpdateSucceeds(sid) ==
    /\ sid \in hangup.outstanding
    /\ calls' = [calls EXCEPT ![sid] = "completed"]
    /\ hangup' = [hangup EXCEPT !.outstanding = @ \ {sid}]
    /\ UNCHANGED <<phase, req, resp, api, client, failed, env, page>>

\* line 543, lines 546 and 555-562: one update fails; Promise.all rejects
\* with it when the handler is still waiting, and the catch answers.
UpdateFails(sid) ==
    /\ sid \in hangup.outstanding
    /\ hangup' = IF hangup.pc = "awaiting"
                 THEN [hangup EXCEPT !.outstanding = @ \ {sid},
                                     !.pc = "responded", !.resp = HangupError]
                 ELSE [hangup EXCEPT !.outstanding = @ \ {sid}]
    /\ UNCHANGED <<phase, req, resp, api, client, failed, calls, env, page>>

\* lines 546-554: every update has succeeded and the count is reported
HangupRespond ==
    /\ hangup.pc = "awaiting"
    /\ hangup.outstanding = {}
    /\ hangup' = [hangup EXCEPT
                    !.pc = "responded",
                    !.resp = Json(DefaultStatus,
                                  [ success |-> TRUE,
                                    message |-> TerminatedMessage(Cardinality(hangup.listed)) ])]
    /\ UNCHANGED <<phase, req, resp, api, client, failed, calls, env, page>>

HangupNext ==
    \/ \E ok \in BOOLEAN : HangupList(ok)
    \/ \E sid \in SidPool : UpdateSucceeds(sid)
    \/ \E sid \in SidPool : UpdateFails(sid)
    \/ HangupRespond

HangupSpec == HangupInit /\ [][HangupNext]_vars

-----------------------------------------------------------------------------
(* The TwilioScript component: src/src/components/TwilioScript.tsx.  Each   *)
(* mounted instance runs its effect once its render is committed; the      *)
(* effect of lines 16-90 runs to completion without interleaving.  The     *)
(* page records window.Twilio, the script element with id twilio-js-sdk,   *)
(* how often it was appended, the instance whose closures are its onload   *)
(* and onerror handlers, and per instance whether its onLoad and onError   *)
(* props have been invoked.                                                *)

ScriptInit ==
    /\ phase = "idle"
    /\ req = NoRequest
    /\ resp = NoResponse
    /\ api = <<>>
    /\ client = FALSE
    /\ failed = {}
    /\ calls = [s \in SidPool |-> "none"]
    /\ env = Environment(TRUE, TRUE, TRUE)
    /\ hangup = NoHangup
    /\ page = NoPage

\* An instance of the component is mounted; its effect is scheduled.
Mount(i) ==
    /\ page.inst[i].effect = "unmounted"
    /\ page' = [page EXCEPT !.inst[i].effect = "pending"]
    /\ UNCHANGED <<phase, req, resp, api, client, failed, calls, env, hangup>>

\* line 90: the parent passes new onLoad or onError props and the effect is
\* scheduled again.
Rerender(i) ==
    /\ page.inst[i].effect = "done"
    /\ page' = [page EXCEPT !.inst[i].effect = "pending"]
    /\ UNCHANGED <<phase, req, resp, api, client, failed, calls, env, hangup>>

\* lines 16-90: the effect of one instance
UseEffect(i) ==
    /\ page.inst[i].effect = "pending"
    /\ page' =
          IF page.twilio
          THEN [page EXCEPT !.inst[i].effect = "done", !.inst[i].onLoad = TRUE]
          ELSE IF page.script # "absent"
          THEN [page EXCEPT !.inst[i].effect = "done"]
          ELSE [page EXCEPT !.inst[i].effect = "done", !.script = "loading",
                            !.appended = @ + 1, !.owner = i]
    /\ UNCHANGED <<phase, req, resp, api, client, failed, calls, env, hangup>>

\* lines 45-67: script.onload, the closure of the instance that appended it
ScriptOnload ==
    /\ page.script = "loading"
    /\ page' = [page EXCEPT !.script = "loaded", !.twilio = TRUE,
                            !.inst[page.owner].onLoad = TRUE]
    /\ UNCHANGED <<phase, req, resp, api, client, failed, calls, env, hangup>>

\* lines 69-83: script.onerror; the element stays in the document
ScriptOnerror ==
    /\ page.script = "loading"
    /\ page' = [page EXCEPT !.script = "failed", !.inst[page.owner].onError = TRUE]
    /\ UNCHANGED <<phase, req, resp, api, client, failed, calls, env, hangup>>

ScriptNext ==
    \/ \E i \in Instances : Mount(i)
    \/ \E i \in Instances : Rerender(i)
    \/ \E i \in Instances : UseEffect(i)
    \/ ScriptOnload
    \/ ScriptOnerror

\* React runs every scheduled effect and the browser settles every load.
ScriptSpec ==
    /\ ScriptInit
    /\ [][ScriptNext]_vars
    /\ \A i \in Instances : WF_vars(UseEffect(i))
    /\ WF_vars(ScriptOnload \/ ScriptOnerror)

-----------------------------------------------------------------------------
(* What the claims speak about *)

\* A request other than a preflight has been answered.
Answered == phase = "done" /\ req.method # "OPTIONS"

RequestData == Normalize(req)
Data == RequestData.f

\* The fields the handler calls string methods on are strings.
TextFields(f) ==
    IsText(f.From) /\ IsText(f.phoneNumber) /\ IsText(f.StatusCallbackEvent)

\* The request was decoded into a map of fields with string values, the
\* parameters the claims about the classifier and the handlers speak of.
Classified == Answered /\ RequestData.kind = "map" /\ TextFields(Data)

Action == FinalAction(req, Data)
Explicit == ExplicitAction(req, Data)

IsMarkup == resp.contentType = "text/xml" /\ resp.body.root = "Response"
IsJson == resp.contentType = "application/json"
Verbs == resp.body.verbs
Spoken == {i \in 1..Len(Verbs) : Verbs[i].verb = "Say"}

\* The provider operations of the request, the construction of the client aside.
NoProviderCall == api = <<>>

-----------------------------------------------------------------------------
(* C1: every request whose method is not OPTIONS is answered with exactly  *)
(* one response, and its HTTP status is 200, whatever the content type,    *)
(* body, parameters, configuration and provider outcome, a failing         *)
(* provider call and an exception inside the handler included.             *)
AlwaysStatus200 ==
    Answered => (resp # NoResponse /\ resp.status = 200)

\* C1's case: the clientCall handler raised on a number for a phone number,
\* outside its own try, and the top-level catch answered.
ExceptionAnswered200 ==
    /\ Answered
    /\ LooksUp(RequestData)
    /\ Explicit = "clientCall"
    /\ ~IsText(Data.phoneNumber)
    /\ Truthy(env.TWILIO_PHONE_NUMBER)
    /\ resp = Json(200, [success |-> FALSE, error |-> NotAFunctionMessage])

(* C2: for every declared content type and every body, normalization does  *)
(* not raise past its boundary and yields a key/value map, possibly empty, *)
(* on which the classifier can look up fields.                             *)
NormalizerYieldsMap ==
    Answered => (RequestData.kind = "map" /\ LooksUp(RequestData))

(* C3: a request with an explicit action that is neither a conference      *)
(* event nor a client-initiated call is answered by that action's handler; *)
(* the status-callback heuristic does not replace the action, also when    *)
(* CallSid comes with a CallStatus, a callback source or a statusCallback  *)
(* flag.  Stated for a complete configuration, where the actions that     *)
(* answer in JSON therefore answer in JSON.                                *)
JsonActions == {"makeCall", "checkStatus", "endCall", "hangupAll", "getConfig"}

ConferenceEvent ==
    \/ Truthy(Data.ConferenceSid)
    \/ Includes(Data.StatusCallbackEvent, ConferenceWord)
    \/ Explicit = "conferenceStatus"

ExplicitActionWins ==
    (/\ Classified
     /\ Configured(env)
     /\ Truthy(Explicit)
     /\ ~ConferenceEvent
     /\ ~IsClientInitiatedCall(Data))
        => /\ Action = Explicit
           /\ Explicit \in JsonActions => IsJson

\* The status a status callback reports, from the body or else the query.
ReportedStatus == OrElse(Data.CallStatus, req.query.CallStatus)

StatusCallbackShaped ==
    /\ Classified
    /\ ~Truthy(Explicit)
    /\ IsStatusCallback(req, Data)
    /\ ~ConferenceEvent
    /\ ~IsClientInitiatedCall(Data)

ClosingOnlyWhenCompleted ==
    /\ Action = "statusCallback"
    /\ IsMarkup
    /\ Verbs = IF ReportedStatus = "completed" THEN <<Say(MsgGoodbye)>> ELSE <<>>

(* C4 as stated: a request with no explicit action that carries a CallSid  *)
(* with a CallStatus, a call-progress CallbackSource or a statusCallback   *)
(* flag, and is no conference event or client-initiated call, is           *)
(* classified statusCallback and answered with markup that speaks the      *)
(* closing message exactly when the status is completed, and with markup   *)
(* without spoken content for every other status.                          *)
StatusCallbackAnswer ==
    StatusCallbackShaped => ClosingOnlyWhenCompleted

(* C4 amended: the same, when the caller-ID number and the account         *)
(* credentials are configured.                                             *)
StatusCallbackAnswerConfigured ==
    (StatusCallbackShaped /\ Configured(env)) => ClosingOnlyWhenCompleted

\* C4's case: a ringing callback acknowledged with markup that says nothing.
RingingAcknowledgedSilently ==
    /\ StatusCallbackShaped
    /\ Configured(env)
    /\ Data.CallStatus = "ringing"
    /\ resp = Markup(<<>>)

TenDigitsDialedWithCountryCode ==
    (/\ Classified
     /\ Truthy(env.TWILIO_PHONE_NUMBER)
     /\ ~Truthy(Explicit)
     /\ Data.From = ClientAbc
     /\ Data.phoneNumber = TenDigits)
        => /\ IsMarkup
           /\ \E i \in 1..Len(Verbs) :
                 Verbs[i].verb = "Dial" /\ Verbs[i].number = <<"+", "1">> \o TenDigits

(* C7: a request with no explicit action that has a phoneNumber and no     *)
(* call-status fields is classified clientCall, whatever its From, and is  *)
(* answered by the clientCall handler: the wait message and a dial to the  *)
(* normalized number.  Stated for a complete configuration and a request   *)
(* without conference fields.                                              *)
BarePhoneNumberIsClientCall ==
    (/\ Classified
     /\ Configured(env)
     /\ ~Truthy(Explicit)
     /\ Data.phoneNumber # <<>>
     /\ ~IsStatusCallback(req, Data)
     /\ ~Truthy(Data.CallSid)
     /\ ~Truthy(Data.CallStatus)
     /\ ~ConferenceEvent)
        => /\ Action = "clientCall"
           /\ IsMarkup
           /\ Len(Verbs) = 2
           /\ Verbs[1] = Say(MsgClientWait)
           /\ Verbs[2].verb = "Dial"
           /\ Verbs[2].number = FormatPhoneNumber(Data.phoneNumber)


(* C8: hangupAll reports the attempted count regardless of individual      *)
(* failures: for every list of in-progress calls and every subset of       *)
(* terminate instructions that fail, the response is a success naming the  *)
(* number of calls attempted.  api holds the list operation followed by    *)
(* one terminate instruction per listed call.                              *)
HangupAllReportsAttempted ==
    (/\ Classified
     /\ Configured(env)
     /\ Action = "hangupAll"
     /\ Len(api) >= 1
     /\ api[1].op = "list"
     /\ api[1].ok)
        => /\ resp.status = 200
           /\ IsJson
           /\ resp.body = [success |-> TRUE, message |-> TerminatedMessage(Len(api) - 1)]

SentinelCheckStatus ==
    /\ Classified
    /\ Action = "checkStatus"
    /\ Data.callSid \in {"pending-sid", "browser-call"}

PendingWithoutProvider ==
    /\ resp = Json(200, [success |-> TRUE, status |-> "pending"])
    /\ NoProviderCall

(* C9 as stated: every checkStatus request whose callSid is pending-sid or *)
(* browser-call returns the JSON {success:true, status:"pending"} and does *)
(* not invoke the Telephony Control Client.                                *)
SentinelIsPending ==
    SentinelCheckStatus => PendingWithoutProvider

(* C9 amended: every checkStatus request whose callSid is pending-sid or   *)
(* browser-call does not invoke the Telephony Control Client, and returns  *)
(* the JSON {success:true, status:"pending"} when the caller-ID number and *)
(* the account credentials are configured.                                 *)
SentinelIsPendingConfigured ==
    SentinelCheckStatus
        => /\ NoProviderCall
           /\ Configured(env) => PendingWithoutProvider

\* C9's case: checkStatus of browser-call answered pending, no provider operation.
BrowserCallPending ==
    /\ SentinelCheckStatus
    /\ Data.callSid = "browser-call"
    /\ PendingWithoutProvider

\* A makeCall that succeeded: its response names the call identifier.
CallPlaced ==
    /\ Classified
    /\ Action = "makeCall"
    /\ IsJson
    /\ resp.body.success

(* C10: round trip.  The identifier a successful makeCall returns is one   *)
(* the provider holds, and the provider's calls are exactly those          *)
(* makeCall placed; a checkStatus for an identifier the provider holds,    *)
(* with the provider answering, returns success with the status string the *)
(* provider reports, not an error.                                         *)
RoundTrip ==
    /\ CallPlaced => (Held(calls, resp.body.callSid) /\ calls[resp.body.callSid] = "queued")
    /\ (/\ Classified
        /\ Configured(env)
        /\ Action = "checkStatus"
        /\ Held(calls, Data.callSid)
        /\ failed = {})
          => /\ resp = Json(200, [success |-> TRUE, status |-> calls[Data.callSid]])
             /\ api = <<[op |-> "fetch", ok |-> TRUE, sid |-> Data.callSid]>>

\* C10's case: the status of a placed call that has since been answered is relayed.
PlacedCallStatusRelayed ==
    /\ Classified
    /\ Action = "checkStatus"
    /\ Held(calls, Data.callSid)
    /\ IsJson
    /\ resp.body = [success |-> TRUE, status |-> "in-progress"]

\* A request the classifier resolves to dialStatus.
DialStatusRequest == Classified /\ Action = "dialStatus"

\* The one message the dial result is mapped to.
DialResultSpoken ==
    /\ resp.status = 200
    /\ IsMarkup
    /\ Len(Verbs) = 1
    /\ Verbs[1].verb = "Say"
    /\ Data.DialCallStatus = "completed" => Verbs[1].text = MsgDialCompleted
    /\ Data.DialCallStatus = "busy" => Verbs[1].text = MsgDialBusy
    /\ Data.DialCallStatus = "no-answer" => Verbs[1].text = MsgDialNoAnswer
    /\ Data.DialCallStatus = "failed" => Verbs[1].text = MsgDialFailed
    /\ Data.DialCallStatus \notin {"completed", "busy", "no-answer", "failed"}
          => Verbs[1].text = "Call status is "
                                \o (IF Data.DialCallStatus = Undefined
                                    THEN "unknown" ELSE Data.DialCallStatus)
                                \o ". Goodbye."

(* C11 as stated: for every value of the dial result field, absent         *)
(* included, a request with action dialStatus is answered with HTTP 200    *)
(* text/xml markup that speaks exactly one message: the completed, busy,   *)
(* no-answer or failed message for those four values, and the generic      *)
(* "status is X" message, X being unknown when the field is absent, for    *)
(* every other value.                                                      *)
DialStatusClosedMapping ==
    DialStatusRequest => DialResultSpoken

(* C11 amended: the same, when the caller-ID number and the account        *)
(* credentials are configured.                                             *)
DialStatusClosedMappingConfigured ==
    (DialStatusRequest /\ Configured(env)) => DialResultSpoken

\* C11's case: a dial result outside the four known values is spoken in the
\* generic message.
CanceledDialResultSpoken ==
    /\ DialStatusRequest
    /\ Configured(env)
    /\ Data.DialCallStatus = "canceled"
    /\ resp = Markup(<<Say("Call status is canceled. Goodbye.")>>)

(* C12: conference lifecycle events are never routed into the status path: *)
(* every request that carries a conference identifier, or whose event      *)
(* field mentions conference, or whose action is conferenceStatus, also    *)
(* when it carries CallSid and CallStatus, is answered with an empty valid *)
(* markup acknowledgment without spoken content.  Stated for a complete    *)
(* configuration and for requests that are no client-initiated call.       *)
ConferenceNeverInStatusPath ==
    (/\ Classified
     /\ Configured(env)
     /\ ConferenceEvent
     /\ ~IsClientInitiatedCall(Data))
        => /\ Action = "conferenceStatus"
           /\ resp = Markup(<<>>)


\* The actions the Controller has a handler for.
KnownActions ==
    {"getConfig", "makeCall", "clientCall", "statusCallback", "dialStatus",
     "checkStatus", "endCall", "hangupAll", "conferenceStatus"}

\* A request that matches no rule of the classifier: its action is absent or
\* unrecognised, and it carries no status, conference or client fields, and
\* no bare phoneNumber.
UnknownRequest ==
    /\ Classified
    /\ Explicit \notin KnownActions
    /\ ~(~Truthy(Explicit) /\ Data.phoneNumber # <<>>)
    /\ ~Truthy(Data.CallSid)
    /\ ~Truthy(Data.CallStatus)
    /\ ~ConferenceEvent
    /\ ~StartsWith(Data.From, ClientPrefix)

\* The diagnostic: a JSON error that names the action, null when it is absent.
UnknownDiagnostic ==
    /\ resp.status = 200
    /\ IsJson
    /\ resp.body = [ success |-> FALSE,
                     error |-> "The requested action "
                                  \o (IF Explicit = Undefined THEN "null" ELSE Explicit)
                                  \o " is not supported." ]

(* C13 as stated: every request that matches no classification rule, its   *)
(* action unrecognised or absent and without status, conference or client  *)
(* fields, is answered with a structured JSON error naming the             *)
(* unrecognised action, with HTTP 200.                                     *)
UnknownIsDiagnosed ==
    UnknownRequest => UnknownDiagnostic

(* C13 amended: the same, when the caller-ID number and the account        *)
(* credentials are configured.                                             *)
UnknownIsDiagnosedConfigured ==
    (UnknownRequest /\ Configured(env)) => UnknownDiagnostic

\* C13's case: the action bogus is named in the diagnostic.
BogusActionNamed ==
    /\ UnknownRequest
    /\ Configured(env)
    /\ Explicit = "bogus"
    /\ resp = Json(200, [ success |-> FALSE,
                          error |-> "The requested action bogus is not supported." ])

(* C14: when the caller-ID phone number is not configured, every request   *)
(* whose method is not OPTIONS, whatever its action, is answered with HTTP *)
(* 200 text/xml markup that speaks the configuration apology, never a raw  *)
(* error, and no provider operation is made.                               *)
NoCallerIdApology ==
    (Answered /\ ~Truthy(env.TWILIO_PHONE_NUMBER))
        => /\ resp.status = 200
           /\ IsMarkup
           /\ Verbs = <<Say(MsgNoCallerId)>>
           /\ NoProviderCall


\* The actions that use the Telephony Control Client.
ProviderBacked == {"makeCall", "checkStatus", "endCall", "hangupAll"}

\* The caller ID is configured, the account identifier or the auth secret is not.
CredentialsMissing ==
    /\ Truthy(env.TWILIO_PHONE_NUMBER)
    /\ ~Truthy(env.TWILIO_ACCOUNT_SID) \/ ~Truthy(env.TWILIO_AUTH_TOKEN)

(* C15: when the account identifier or the auth secret is not configured   *)
(* and the caller ID is, every request dispatched to makeCall,             *)
(* checkStatus, endCall or hangupAll is answered with HTTP 200 markup that *)
(* speaks an apology; no exception leaves the handler, and the Telephony   *)
(* Control Client is neither constructed nor invoked.                      *)
MissingCredentialsApology ==
    (Classified /\ Action \in ProviderBacked /\ CredentialsMissing)
        => /\ resp.status = 200
           /\ IsMarkup
           /\ Verbs = <<Say(MsgNoCredentials)>>
           /\ ~client
           /\ NoProviderCall

\* C15's case: a hangupAll without the auth secret is answered with the apology.
HangupAllWithoutSecret ==
    /\ Classified
    /\ Action = "hangupAll"
    /\ Truthy(env.TWILIO_PHONE_NUMBER)
    /\ Truthy(env.TWILIO_ACCOUNT_SID)
    /\ ~Truthy(env.TWILIO_AUTH_TOKEN)
    /\ resp = Markup(<<Say(MsgNoCredentials)>>)
    /\ ~client


\* A request that lacks the field its action requires.
MissingRequiredField ==
    /\ Classified
    /\ \/ Action = "makeCall" /\ Data.phoneNumber = <<>>
       \/ Action \in {"checkStatus", "endCall"} /\ ~Truthy(Data.callSid)

\* The JSON {success:false, error} and no call created, fetched or terminated.
ValidationAnswer ==
    /\ resp.status = 200
    /\ IsJson
    /\ DOMAIN resp.body = {"success", "error"}
    /\ resp.body.success = FALSE
    /\ resp.body.error \in {"Phone number is required",
                            "Call SID is required to check call status",
                            "Call SID is required to end a call"}
    /\ NoProviderCall

(* C16 as stated: a makeCall request without a destination phone number,   *)
(* and a checkStatus or endCall request without a call identifier, each    *)
(* return the JSON {success:false, error} with HTTP 200 and make no        *)
(* provider operation.                                                     *)
ValidationError ==
    MissingRequiredField => ValidationAnswer

(* C16 amended: such a request makes no provider operation, and returns    *)
(* the JSON {success:false, error} with HTTP 200 when the caller-ID number *)
(* and the account credentials are configured.                             *)
ValidationErrorConfigured ==
    MissingRequiredField
        => /\ NoProviderCall
           /\ resp.status = 200
           /\ Configured(env) => ValidationAnswer

\* C16's case: an endCall without an identifier is refused.
EndCallWithoutIdentifierRefused ==
    /\ MissingRequiredField
    /\ Action = "endCall"
    /\ resp = Json(200, [success |-> FALSE, error |-> "Call SID is required to end a call"])
    /\ NoProviderCall


MakeCallWithDestination ==
    /\ Classified
    /\ Action = "makeCall"
    /\ Data.phoneNumber # <<>>

\* One create-call operation with the parameters of lines 366-373, and the
\* JSON answer for its outcome.
CreateInvokedOnce ==
    /\ Len(api) = 1
    /\ api[1].op = "create"
    /\ api[1].params.to = FormatPhoneNumber(Data.phoneNumber)
    /\ api[1].params.from = env.TWILIO_PHONE_NUMBER
    /\ \E i \in 1..Len(api[1].params.twiml) :
          LET v == api[1].params.twiml[i]
          IN  /\ v.verb = "Dial"
              /\ v.number = FormatPhoneNumber(Data.phoneNumber)
              /\ v.callerId = env.TWILIO_PHONE_NUMBER
              /\ v.timeout = 20
    /\ Truthy(Data.leadId) => api[1].params.statusCallback.callId = Data.leadId
    /\ resp.status = 200
    /\ IsJson
    /\ api[1].ok => /\ resp.body.success
                    /\ resp.body.callSid = api[1].sid
                    /\ Held(calls, api[1].sid)
    /\ ~api[1].ok => resp.body = [success |-> FALSE, error |-> ProviderErrorMessage]

(* C17 as stated: a makeCall request with a destination number invokes the *)
(* create-call operation exactly once, with the normalized destination,    *)
(* the configured caller ID, dial markup with the fixed 20-second timeout  *)
(* and a status-callback URL carrying the lead reference; on success it    *)
(* returns JSON with success true and the provider-assigned identifier,    *)
(* on provider failure the JSON {success:false, error} with HTTP 200.      *)
MakeCallCreatesOnce ==
    MakeCallWithDestination => CreateInvokedOnce

(* C17 amended: the same, when the caller-ID number and the account        *)
(* credentials are configured.                                             *)
MakeCallCreatesOnceConfigured ==
    (MakeCallWithDestination /\ Configured(env)) => CreateInvokedOnce

\* C17's case: a punctuated number with a lead reference is placed as a call
\* to its digits.
PunctuatedNumberPlaced ==
    /\ MakeCallWithDestination
    /\ Data.phoneNumber = Punctuated
    /\ Data.leadId = "42"
    /\ Len(api) = 1
    /\ api[1].ok
    /\ api[1].params.to = PlusSign \o TenDigits
    /\ api[1].params.statusCallback.callId = "42"
    /\ resp.body.success
    /\ resp.body.callSid = api[1].sid


(* C18: a request classified getConfig is answered with JSON that holds    *)
(* the configured caller-ID phone number, and no provider operation is     *)
(* made; the answer does not depend on the account credentials being       *)
(* configured.                                                             *)
GetConfigReturnsCallerId ==
    (Classified /\ Action = "getConfig" /\ Truthy(env.TWILIO_PHONE_NUMBER))
        => /\ resp = Json(200, [ twilioPhoneNumber |-> env.TWILIO_PHONE_NUMBER,
                                 success |-> TRUE ])
           /\ NoProviderCall
           /\ ~client

\* C18's case: the caller ID is returned while the credentials are missing.
CallerIdWithoutCredentials ==
    /\ Classified
    /\ Action = "getConfig"
    /\ ~Truthy(env.TWILIO_ACCOUNT_SID)
    /\ ~Truthy(env.TWILIO_AUTH_TOKEN)
    /\ IsJson
    /\ resp.body.twilioPhoneNumber = CallerId

\* An endCall request with an identifier.
EndCallRequest ==
    /\ Classified
    /\ Action = "endCall"
    /\ Truthy(Data.callSid)

\* The sentinel is answered without the provider; any other identifier gets
\* one terminate instruction, and the answer follows its outcome.
EndCallAnswer ==
    /\ resp.status = 200
    /\ IsJson
    /\ IF Data.callSid = "browser-call"
       THEN resp.body.success /\ NoProviderCall
       ELSE /\ Len(api) = 1
            /\ api[1].op = "update"
            /\ api[1].sid = Data.callSid
            /\ api[1].ok => (resp.body.success /\ calls[Data.callSid] = "completed")
            /\ ~api[1].ok => resp.body = [success |-> FALSE, error |-> ProviderErrorMessage]

\* Handling an endCall request leaves every call but the one it names as it was.
EndCallLeavesOthers ==
    (EndCallRequest' /\ phase = "idle")
        => \A s \in SidPool : s # Data.callSid' => calls'[s] = calls[s]

(* C19 as stated: endCall with the sentinel browser-call returns success   *)
(* without a provider operation; endCall with any other non-empty          *)
(* identifier issues exactly one terminate instruction, for that           *)
(* identifier and no other call, and returns success when it succeeds and  *)
(* the JSON {success:false, error} with HTTP 200 when the provider fails.  *)
EndCallTerminatesOne ==
    /\ [](EndCallRequest => EndCallAnswer)
    /\ [][EndCallLeavesOthers]_vars

(* C19 amended: the same, when the caller-ID number and the account        *)
(* credentials are configured.                                             *)
EndCallTerminatesOneConfigured ==
    /\ []((EndCallRequest /\ Configured(env)) => EndCallAnswer)
    /\ [][EndCallLeavesOthers]_vars

\* C19's case: one of two calls in progress is ended, the other stays.
OneOfTwoCallsEnded ==
    /\ EndCallRequest
    /\ Data.callSid = Sid(1)
    /\ api = <<[op |-> "update", ok |-> TRUE, sid |-> Sid(1)]>>
    /\ resp = Json(200, [success |-> TRUE, message |-> "Call ended"])
    /\ calls[Sid(1)] = "completed"
    /\ calls[Sid(2)] = "in-progress"


\* A request without an explicit action whose caller identifier begins with
\* client: and that has no phoneNumber; no conference event, and the
\* configuration complete.
ClientWithoutNumber ==
    /\ Classified
    /\ Configured(env)
    /\ ~Truthy(Explicit)
    /\ StartsWith(Data.From, ClientPrefix)
    /\ Data.phoneNumber = <<>>
    /\ ~ConferenceEvent

\* The default "no number provided" path: the message, then the hangup.
NoNumberThenHangup ==
    /\ IsMarkup
    /\ Len(Verbs) >= 2
    /\ Verbs[1] = Say(MsgDefaultNoNumber)
    /\ Verbs[Len(Verbs)] = Hangup
    /\ \A i \in 2..Len(Verbs) : Verbs[i].verb # "Say"

HangupAllJoinsBeforeResponding ==
    /\ hangup.pc = "awaiting" => hangup.outstanding \subseteq hangup.listed
    /\ hangup.pc = "responded" => hangup.outstanding = {}


\* The declared content type is form-encoded or multipart and decoding the
\* form fields failed.
FormDecodingFailed ==
    /\ Answered
    /\ req.contentType \in {"form", "multipart"}
    /\ FormData(req.contentType, req.encoding, req.fields).threw

(* C22: when the declared content type is form-encoded or multipart and    *)
(* decoding the form fields fails, the raw body is read again as text and  *)
(* parsed as URL-encoded parameters, so that the map holds the body's      *)
(* URL-encoded keys; each copy of the request body is read at most once.   *)
FormFallbackKeepsKeys ==
    FormDecodingFailed
        => /\ RequestData.kind = "map"
           /\ Data = UrlSearchParams(req.encoding, req.fields)
           /\ BodyReads(req) <= 1

(* C23: the normalized request merges the URL query parameters with the    *)
(* body fields: a callback that carries CallSid and CallStatus only in     *)
(* the URL query, its body empty, is classified and answered as            *)
(* statusCallback, as if the fields were in the body.  Stated for a        *)
(* complete configuration and a request without an explicit action.        *)
QueryFieldsSeenAsBodyFields ==
    (/\ Classified
     /\ Configured(env)
     /\ ~Truthy(Explicit)
     /\ Data = NoFields
     /\ Truthy(req.query.CallSid)
     /\ Truthy(req.query.CallStatus))
        => /\ Action = "statusCallback"
           /\ IsMarkup
           /\ Verbs = IF req.query.CallStatus = "completed"
                      THEN <<Say(MsgGoodbye)>> ELSE <<>>


\* The serialisation of the voice document of the request failed: the
\* clientCall handler with a destination, or the default handler answering
\* a client: caller.
VoiceConstructionFailed ==
    /\ Classified
    /\ Configured(env)
    /\ "twiml" \in failed
    /\ StartsWith(Data.From, ClientPrefix)
    /\ \/ Action = "clientCall" /\ Data.phoneNumber # <<>>
       \/ Action \notin KnownActions /\ ~Truthy(Data.CallSid)

(* C24: every response announced as text/xml carries a document with its   *)
(* root element, and when the construction of the document fails the       *)
(* response is a minimal apology-and-hangup markup (an apology is spoken   *)
(* and the call is hung up), not a propagated error.                       *)
ConstructionFailureApologisesAndHangsUp ==
    /\ (Answered /\ resp.contentType = "text/xml") => resp.body.root = "Response"
    /\ VoiceConstructionFailed
          => /\ IsMarkup
             /\ Len(Verbs) = 2
             /\ Verbs[1].verb = "Say"
             /\ Verbs[2] = Hangup


\* The sentinel identifiers: a call not yet issued and a browser-managed call.
Sentinels == {"pending-sid", "browser-call"}

(* C25: no request, checkStatus or endCall, ever causes the provider's     *)
(* client to be invoked with pending-sid or browser-call as the call       *)
(* identifier.                                                             *)
SentinelsNeverReachProvider ==
    \A i \in 1..Len(api) : api[i].sid \notin Sentinels


\* The request just answered, delivered a second time to the same provider
\* with the same provider behaviour.
Redelivery == Handler(req, env, calls, failed)

(* C26: every handler is idempotent: delivering the same request a second  *)
(* time yields the same response as the first delivery and leaves the      *)
(* provider in the state the single delivery left it in.  Stated for a     *)
(* provider that fails no operation and has identifiers left to issue.     *)
RedeliveryChangesNothing ==
    (/\ Answered
     /\ failed = {}
     /\ \E sid \in SidPool : calls[sid] = "none")
        => /\ Redelivery.resp = resp
           /\ Redelivery.cs = calls


\* The request carries no lead reference.
WithoutLead == Classified /\ Configured(env) /\ ~Truthy(Data.leadId)

(* C27: the lead reference defaults to the placeholder unknown: a request  *)
(* without a leadId produces a dial-result URL (clientCall) and a          *)
(* status-callback URL (makeCall) whose lead reference is unknown.         *)
LeadDefaultsToUnknown ==
    /\ (WithoutLead /\ Action = "clientCall" /\ Data.phoneNumber # <<>>)
          => /\ IsMarkup
             /\ Len(Verbs) = 2
             /\ Verbs[2].action = DialStatusUrl("unknown")
    /\ (WithoutLead /\ Action = "makeCall" /\ api # <<>>)
          => api[1].params.statusCallback = StatusCallbackUrl("unknown")


\* A plus sign followed only by digits.
PlusAndDigits(n) ==
    /\ Len(n) >= 1
    /\ n[1] = "+"
    /\ \A i \in 2..Len(n) : n[i] \in Digits

\* The request names a destination that is not a client address.
NumberDestination ==
    /\ Classified
    /\ Configured(env)
    /\ Data.phoneNumber # <<>>
    /\ ~Includes(Data.phoneNumber, ClientPrefix)

(* C28: for every destination that is not a client address, the number    *)
(* dialed by makeCall and by clientCall is a plus sign followed only by    *)
(* digits, and normalizing it again returns it unchanged.                  *)
DialedNumberIsPlusAndDigits ==
    /\ (NumberDestination /\ Action = "makeCall" /\ api # <<>>)
          => /\ PlusAndDigits(api[1].params.to)
             /\ FormatPhoneNumber(api[1].params.to) = api[1].params.to
    /\ (NumberDestination /\ Action = "clientCall")
          => /\ IsMarkup
             /\ Len(Verbs) = 2
             /\ PlusAndDigits(Verbs[2].number)
             /\ FormatPhoneNumber(Verbs[2].number) = Verbs[2].number


\* A caller at a client address names a destination.
ClientNamesDestination ==
    /\ Classified
    /\ Truthy(env.TWILIO_PHONE_NUMBER)
    /\ StartsWith(Data.From, ClientPrefix)
    /\ Data.phoneNumber # <<>>

(* C29: the branch of the default handler that dials a phoneNumber for a   *)
(* client: caller is unreachable: every request whose From begins with     *)
(* client: and that has a non-empty phoneNumber is handled as clientCall   *)
(* (or answered by the caller-ID apology), and no response ever carries    *)
(* the default handler's dial: a dial instruction without a dial-result    *)
(* callback URL, or its waiting message.                                   *)
DefaultDialUnreachable ==
    /\ ClientNamesDestination => Action = "clientCall"
    /\ (Answered /\ IsMarkup)
          => \A i \in 1..Len(Verbs) :
                /\ Verbs[i] # Say(MsgDefaultWait)
                /\ Verbs[i].verb = "Dial" => Verbs[i].action # NoUrl

\* A client: caller with a destination and an unrecognised explicit action
\* is connected by the clientCall handler, with the dial-result callback.
ClientWithBogusActionDialed ==
    /\ ClientNamesDestination
    /\ Configured(env)
    /\ Explicit = "bogus"
    /\ IsMarkup
    /\ Verbs = << Say(MsgClientWait),
                  Dial(FormatPhoneNumber(Data.phoneNumber), env.TWILIO_PHONE_NUMBER,
                       DialStatusUrl(OrElse(Data.leadId, "unknown"))) >>


\* The instance is mounted.
Mounted(i) == page.inst[i].effect # "unmounted"

(* C30: for every mounted TwilioScript instance, once the SDK script has   *)
(* finished loading its onLoad callback is eventually invoked, and once    *)
(* the script has failed to load its onError callback is eventually        *)
(* invoked, an instance mounted while another instance's script element    *)
(* is still loading included; the script element is appended to the        *)
(* document at most once across all instances.                             *)
EveryInstanceIsCalledBack ==
    /\ \A i \in Instances :
          (Mounted(i) /\ page.script = "loaded") ~> page.inst[i].onLoad
    /\ \A i \in Instances :
          (Mounted(i) /\ page.script = "failed") ~> page.inst[i].onError
    /\ [](page.appended <= 1)


====
